---- MODULE Spec2Model ----
(***************************************************************************)
(* Model of the chat relay: the server route (src/app/api/chat/route.ts)   *)
(* with its sanitizer, retrying fetcher, message preparation and upstream  *)
(* SSE transformer, and the client page (src/app/page.tsx) with its stream *)
(* consumer and submit controls.                                           *)
(*                                                                         *)
(* Text is a sequence of characters.  An ASCII character is the one-       *)
(* character string itself; a non-ASCII character is named by its code     *)
(* point ("U+00E9").  A byte of a UTF-8 stream is the ASCII character it   *)
(* encodes, or "xHH" for a byte >= 0x80.                                   *)
(***************************************************************************)
EXTENDS Integers, Sequences, FiniteSets, TLC

VARIABLES
  \* ---- upstream SSE transformer (route.ts, ReadableStream.start)
  upstream,     \* the bytes of the completion provider's response body
  upPos,        \* how many of them reader.read() has delivered
  tpc,          \* "loop": in the read loop; "done": start() has returned
  buffer,       \* carry-over text of the incomplete last line
  decPending,   \* bytes the streaming TextDecoder holds back
  ctrl,         \* state of the output stream: "readable", "closed", "errored"
  out,          \* the chunks enqueued on the output stream, in order
  releases,     \* calls of reader.releaseLock()
  terminals,    \* times the output stream entered a terminal state
  closeThrew,   \* controller.close() threw inside the finally block
  tlog,         \* what the loop met: decode errors, a failed read
  \* ---- downstream consumer (page.tsx, onResponse/readStream)
  cpc,          \* "idle": no response yet; "loop": reading; "done": loop left
  cPos,         \* how many bytes of the response body the reader delivered
  text,         \* the read loop's local accumulated string
  streamContent, \* the React state the page renders
  \* ---- fetchWithRetries (route.ts 41-51)
  fpc,          \* "idle", "fetch": a fetch is awaited, "wait": the backoff
                \* timer runs, "returned", "thrown"
  maxRetries,   \* the retries argument of the outermost call
  initialDelay, \* the delay argument of the outermost call
  retries,      \* the retries parameter of the current call
  delay,        \* the delay parameter of the current call
  attempts,     \* calls of fetch so far
  waits,        \* the timeouts set so far, in order
  errors,       \* the error caught after each failed attempt, in order
  fresult,      \* the response returned or the error thrown
  \* ---- POST before the stream starts (route.ts 53-155, 231-250)
  ppc,          \* "start", "searching": tvly.search is awaited, "fetching":
                \* fetchWithRetries has been called, "streaming": the SSE
                \* response was returned, "failed": the catch ran
  request,      \* the environment keys and the request body
  messages,     \* the validated message list, then with the system message
  searchQuery,  \* the query given to tvly.search
  payload,      \* the messages of the body sent to the completion provider
  httpStatus,   \* status of the response returned, 0 while none was made
  errorMessage, \* the `error` field of the JSON error envelope
  calls,        \* the providers called so far, in order
  \* ---- the token join applied to one buffer and one payload (page.tsx 36-43)
  jpc,          \* "in": inputs chosen; "joined": result computed
  jText,        \* the buffer before
  jContent,     \* the payload
  jResult,      \* the buffer after
  \* ---- sanitizeContent applied to one text, and again (route.ts 10-38)
  spc,          \* "in": input chosen; "once", "twice": times applied
  sInput,       \* the text given
  sOnce,        \* sanitizeContent(sInput)
  sTwice,       \* sanitizeContent(sOnce)
  \* ---- one delta framed by the transformer and read back by the consumer
  wpc,          \* "in": delta chosen; "sent": events enqueued; "read"
  wDelta,       \* the delta content of the upstream line
  wEvents,      \* the chunks the transformer enqueues for that line
  wPayloads,    \* the payloads the consumer appends when it reads them
  \* ---- the page and its chat hook (page.tsx 9-59, 137-162)
  isLoading,    \* useChat's isLoading
  input,        \* useChat's input, the text area's value
  reqs          \* the chat requests submitted so far, each with the state
                \* of its response and of the read loop started for it

tvars == <<upstream, upPos, tpc, buffer, decPending, ctrl, out, releases,
           terminals, closeThrew, tlog>>

cvars == <<cpc, cPos, text, streamContent>>

fvars == <<fpc, maxRetries, initialDelay, retries, delay, attempts, waits,
           errors, fresult>>

pvars == <<ppc, request, messages, searchQuery, payload, httpStatus,
           errorMessage, calls>>

jvars == <<jpc, jText, jContent, jResult>>

uvars == <<isLoading, input, reqs>>

svars == <<spc, sInput, sOnce, sTwice>>

wvars == <<wpc, wDelta, wEvents, wPayloads>>

vars == <<tvars, cvars, fvars, pvars, jvars, uvars, svars, wvars>>

\* what the actions of one component leave alone
notT == <<cvars, fvars, pvars, jvars, uvars, svars, wvars>>

notC == <<tvars, fvars, pvars, jvars, uvars, svars, wvars>>

notF == <<tvars, cvars, pvars, jvars, uvars, svars, wvars>>

notP == <<tvars, cvars, fvars, jvars, uvars, svars, wvars>>

notJ == <<tvars, cvars, fvars, pvars, uvars, svars, wvars>>

notU == <<tvars, fvars, pvars, jvars, cpc, cPos, text, svars, wvars>>

notS == <<tvars, cvars, fvars, pvars, jvars, uvars, wvars>>

notW == <<tvars, cvars, fvars, pvars, jvars, uvars, svars>>

-----------------------------------------------------------------------------
(* Characters *)

AlnumChars ==
  {"a","b","c","d","e","f","g","h","i","j","k","l","m","n","o","p","q","r",
   "s","t","u","v","w","x","y","z",
   "A","B","C","D","E","F","G","H","I","J","K","L","M","N","O","P","Q","R",
   "S","T","U","V","W","X","Y","Z",
   "0","1","2","3","4","5","6","7","8","9"}

WhitespaceChars == {" ", "\t", "\r", "\n"}

PunctChars == {"!", ".", ",", "?", ":", ";", "-", "'", "\"", "[", "]", "{",
               "}", "(", ")", "\\", "/", "_"}

\* the characters matched by /[\x00-\x7F]/ among those the model uses
AsciiChars == AlnumChars \cup WhitespaceChars \cup PunctChars

\* U+00E9 e-acute, U+0301 combining acute, U+201C/D double quotes,
\* U+2018/9 single quotes, U+2014 em dash, U+2013 en dash, U+2026 ellipsis,
\* U+03A9 Greek Omega, U+FFFD replacement character
NonAsciiChars == {"U+00E9", "U+0301", "U+201C", "U+201D", "U+2018", "U+2019",
                  "U+2014", "U+2013", "U+2026", "U+03A9", "U+FFFD"}

-----------------------------------------------------------------------------
(* String primitives of the language runtime *)

StartsWith(s, p) == Len(s) >= Len(p) /\ SubSeq(s, 1, Len(p)) = p

\* s.slice(n)
Slice(s, n) == SubSeq(s, n + 1, Len(s))

\* s.trim() === ''
TrimIsEmpty(s) == \A i \in 1..Len(s) : s[i] \in WhitespaceChars

RECURSIVE SplitNL(_)
\* s.split('\n'): always at least one element; the last one is what follows
\* the last line break
SplitNL(s) ==
  IF \A i \in 1..Len(s) : s[i] # "\n" THEN <<s>>
  ELSE LET i == CHOOSE i \in 1..Len(s) :
                  s[i] = "\n" /\ \A j \in 1..(i - 1) : s[j] # "\n"
       IN  <<SubSeq(s, 1, i - 1)>> \o SplitNL(SubSeq(s, i + 1, Len(s)))

RECURSIVE Flatten(_)
Flatten(ss) == IF ss = <<>> THEN <<>> ELSE Head(ss) \o Flatten(Tail(ss))

Front(s) == SubSeq(s, 1, Len(s) - 1)

Last(s) == s[Len(s)]

-----------------------------------------------------------------------------
(* UTF-8 *)

\* the UTF-8 encoding of each non-ASCII character of the model
Utf8Bytes(c) ==
  CASE c = "U+00E9" -> <<"xC3", "xA9">>
    [] c = "U+0301" -> <<"xCC", "x81">>
    [] c = "U+03A9" -> <<"xCE", "xA9">>
    [] c = "U+201C" -> <<"xE2", "x80", "x9C">>
    [] c = "U+201D" -> <<"xE2", "x80", "x9D">>
    [] c = "U+2018" -> <<"xE2", "x80", "x98">>
    [] c = "U+2019" -> <<"xE2", "x80", "x99">>
    [] c = "U+2014" -> <<"xE2", "x80", "x94">>
    [] c = "U+2013" -> <<"xE2", "x80", "x93">>
    [] c = "U+2026" -> <<"xE2", "x80", "xA6">>
    [] c = "U+FFFD" -> <<"xEF", "xBF", "xBD">>
    [] OTHER -> <<c>>

\* TextEncoder.encode
Utf8Encode(chars) == Flatten([i \in 1..Len(chars) |-> Utf8Bytes(chars[i])])

\* q begins a multi-byte sequence that more bytes could complete
IsPartial(q) ==
  \E c \in NonAsciiChars :
    Len(q) < Len(Utf8Bytes(c)) /\ SubSeq(Utf8Bytes(c), 1, Len(q)) = q

RECURSIVE Utf8Decode(_)
\* The streaming UTF-8 decoder run over the byte queue q.
\*   ok: no malformed sequence met; text: the characters decoded;
\*   pending: an incomplete trailing sequence, held back for the next call;
\*   rest: on error, the bytes of q not consumed when the error was raised
Utf8Decode(q) ==
  IF q = <<>> THEN [ok |-> TRUE, text |-> <<>>, pending |-> <<>>, rest |-> <<>>]
  ELSE IF Head(q) \in AsciiChars
  THEN LET r == Utf8Decode(Tail(q))
       IN  [r EXCEPT !.text = IF r.ok THEN <<Head(q)>> \o @ ELSE <<>>]
  ELSE IF \E c \in NonAsciiChars : StartsWith(q, Utf8Bytes(c))
  THEN LET c == CHOOSE c \in NonAsciiChars : StartsWith(q, Utf8Bytes(c))
           r == Utf8Decode(Slice(q, Len(Utf8Bytes(c))))
       IN  [r EXCEPT !.text = IF r.ok THEN <<c>> \o @ ELSE <<>>]
  ELSE IF IsPartial(q)
  THEN [ok |-> TRUE, text |-> <<>>, pending |-> q, rest |-> <<>>]
  ELSE LET held == CHOOSE n \in 0..Len(q) :
                     /\ n = 0 \/ IsPartial(SubSeq(q, 1, n))
                     /\ \A m \in (n + 1)..Len(q) : ~IsPartial(SubSeq(q, 1, m))
       IN  \* a bad lead byte is consumed; a byte that breaks a started
           \* sequence is put back and the started bytes are consumed
           [ok |-> FALSE, text |-> <<>>, pending |-> <<>>,
            rest |-> Slice(q, IF held = 0 THEN 1 ELSE held)]

-----------------------------------------------------------------------------
(* sanitizeContent, route.ts 10-38 *)

\* String.prototype.normalize('NFKD'), one character
NFKD(c) ==
  CASE c = "U+00E9" -> <<"e", "U+0301">>
    [] c = "U+2026" -> <<".", ".", ".">>
    [] OTHER -> <<c>>

\* the replacements table, one character
Replacements(c) ==
  CASE c = "U+201C" -> <<"\"">>
    [] c = "U+201D" -> <<"\"">>
    [] c = "U+2018" -> <<"'">>
    [] c = "U+2019" -> <<"'">>
    [] c = "U+2014" -> <<"-">>
    [] c = "U+2013" -> <<"-">>
    [] c = "U+2026" -> <<".", ".", ".">>
    [] OTHER -> <<c>>

\* a last step that removes nothing
StripNothing(chars) == chars

\* content.replace(/[^\x00-\x7F]/g, '')
StripNonAscii(chars) == SelectSeq(chars, LAMBDA c : c \in AsciiChars)

sanitizeContent(content) ==
  IF content = <<>> THEN <<>>
  ELSE LET normalized == Flatten([i \in 1..Len(content) |-> NFKD(content[i])])
           replaced == Flatten([i \in 1..Len(normalized) |->
                                  Replacements(normalized[i])])
       IN  StripNonAscii(replaced)

-----------------------------------------------------------------------------
(* fetchWithRetries, route.ts 41-51 *)

\* the default values of the parameters retries and delay
DefaultRetries == 3

DefaultDelay == 1000

\* response.ok
ResponseOk(status) == status \in 200..299

\* a retry check that is off by one
GiveUpEarly(r) == r <= 1

\* if (retries === 0) throw error
GiveUp(r) == r = 0

\* the arguments of the recursive call: retries - 1, delay * 2
RetriesLeft(r) == r - 1

\* a backoff that does not grow
ConstantDelay(d) == d

NextDelay(d) == d * 2

\* what one call of fetch can do: resolve with a response of some status,
\* or reject (a transport error)
FetchOutcomes ==
  {[kind |-> "response", status |-> 200], [kind |-> "response", status |-> 204],
   [kind |-> "response", status |-> 404], [kind |-> "response", status |-> 500],
   [kind |-> "reject", status |-> 0]}

\* the value the catch block receives for a failed attempt: the Error made
\* from a failure status, or the rejection itself
CaughtError(o, n) ==
  [kind |-> IF o.kind = "reject" THEN "TypeError" ELSE "HttpError",
   status |-> o.status, attempt |-> n]

\* the awaited fetch settles: lines 43-48 up to the timer being set
FFetch(o) ==
  /\ fpc = "fetch"
  /\ attempts' = attempts + 1
  /\ IF o.kind = "response" /\ ResponseOk(o.status)
     THEN /\ fpc' = "returned"
          /\ fresult' = [kind |-> "Response", status |-> o.status,
                         attempt |-> attempts + 1]
          /\ UNCHANGED <<waits, errors>>
     ELSE /\ errors' = Append(errors, CaughtError(o, attempts + 1))
          /\ IF GiveUp(retries)
             THEN /\ fpc' = "thrown"
                  /\ fresult' = CaughtError(o, attempts + 1)
                  /\ UNCHANGED waits
             ELSE /\ fpc' = "wait"
                  /\ waits' = Append(waits, delay)
                  /\ UNCHANGED fresult
  /\ UNCHANGED <<maxRetries, initialDelay, retries, delay, notF>>

FFetchSettles == \E o \in FetchOutcomes : FFetch(o)

\* the timer fires: line 49, the recursive call
FTimer ==
  /\ fpc = "wait"
  /\ fpc' = "fetch"
  /\ retries' = RetriesLeft(retries)
  /\ delay' = NextDelay(delay)
  /\ UNCHANGED <<maxRetries, initialDelay, attempts, waits, errors, fresult,
                 notF>>

-----------------------------------------------------------------------------
(* POST up to the call of the completion provider, route.ts 53-155 *)

RECURSIVE TrimStart(_)
TrimStart(chars) ==
  IF chars # <<>> /\ Head(chars) \in WhitespaceChars THEN TrimStart(Tail(chars))
  ELSE chars

RECURSIVE TrimEnd(_)
TrimEnd(chars) ==
  IF chars # <<>> /\ Last(chars) \in WhitespaceChars THEN TrimEnd(Front(chars))
  ELSE chars

\* String.prototype.trim
Trim(chars) == TrimEnd(TrimStart(chars))

\* a map callback that accepts any non-empty role
MessageValidAnyRole(msg) ==
  /\ msg.isObject
  /\ msg.roleIsString /\ msg.role # ""
  /\ msg.contentIsString /\ msg.content # <<>>

\* the checks on one element of body.messages (87-98): a raw element says
\* whether it is an object, whether role and content are strings, and their
\* values
MessageValid(msg) ==
  /\ msg.isObject
  /\ msg.roleIsString /\ msg.role # ""
  /\ msg.contentIsString /\ msg.content # <<>>
  /\ msg.role \in {"user", "assistant", "system"}

\* the element the map callback returns (99-102)
Validated(msg) == [role |-> msg.role, content |-> Trim(msg.content)]

\* the message of the Error the map callback throws for an element that
\* fails a check, the checks taken in the order of lines 87-98 (the index
\* the source puts in the message is left out)
MessageError(msg) ==
  IF ~msg.isObject THEN "Invalid message: expected an object"
  ELSE IF ~msg.roleIsString \/ msg.role = ""
  THEN "Invalid message: role must be a non-empty string"
  ELSE IF ~msg.contentIsString \/ msg.content = <<>>
  THEN "Invalid message: content must be a non-empty string"
  ELSE "Invalid message: role must be 'user', 'assistant', or 'system'"

\* the message of the first Error thrown before the search call, the checks
\* taken in the order of the source: keys (60-65), body (69-81), every
\* message in list order (86-103), a non-empty list (105-107); "none" when
\* no check throws
FirstError(req) ==
  LET msgs == req.body.messages
      bad == {i \in 1..Len(msgs) : ~MessageValid(msgs[i])}
  IN  IF ~req.apiKey THEN "TOGETHER_API_KEY is not configured"
      ELSE IF ~req.tavilyKey THEN "TAVILY_API_KEY is not configured"
      ELSE IF ~req.body.isJson THEN "Failed to parse request body as JSON"
      ELSE IF ~req.body.isObject THEN "Invalid request body: expected an object"
      ELSE IF ~req.body.messagesIsArray
      THEN "Invalid request body: messages must be an array"
      ELSE IF bad # {}
      THEN MessageError(msgs[CHOOSE i \in bad : \A j \in bad : i <= j])
      ELSE IF Len(msgs) = 0 THEN "No valid messages provided"
      ELSE "none"

\* no check before the search call throws
RequestAccepted(req) == FirstError(req) = "none"

\* the system message built from the search response (120-123)
SystemMessage(searchResponse) ==
  [role |-> "system", content |-> <<"S", ":">> \o searchResponse]

HasSystem(msgs) == \E i \in 1..Len(msgs) : msgs[i].role = "system"

\* lines 125-130: unshift when no message has role system, otherwise
\* overwrite the element at index 0
Inject(msgs, sys) ==
  IF ~HasSystem(msgs) THEN <<sys>> \o msgs
  ELSE [msgs EXCEPT ![1] = sys]

\* payload.messages (137-140)
PayloadMessages(msgs) ==
  [i \in 1..Len(msgs) |->
     [role |-> msgs[i].role, content |-> sanitizeContent(msgs[i].content)]]

\* the request arrives: lines 56-117, up to the awaited search, or the
\* catch block (231-250) when a check throws
PostReceive ==
  /\ ppc = "start"
  /\ IF RequestAccepted(request)
     THEN LET valid == [i \in 1..Len(request.body.messages) |->
                          Validated(request.body.messages[i])]
          IN  /\ messages' = valid
              /\ searchQuery' = Last(valid).content
              /\ calls' = Append(calls, "search")
              /\ ppc' = "searching"
              /\ UNCHANGED <<httpStatus, errorMessage>>
     ELSE /\ ppc' = "failed"
          /\ httpStatus' = 500
          /\ errorMessage' = FirstError(request)
          /\ UNCHANGED <<messages, searchQuery, calls>>
  /\ UNCHANGED <<request, payload, notP>>

\* the search resolves: lines 119-147, up to the awaited fetchWithRetries
PostSearchResolves(searchResponse) ==
  /\ ppc = "searching"
  /\ messages' = Inject(messages, SystemMessage(searchResponse))
  /\ payload' = PayloadMessages(Inject(messages, SystemMessage(searchResponse)))
  /\ calls' = Append(calls, "completion")
  /\ ppc' = "fetching"
  /\ UNCHANGED <<request, searchQuery, httpStatus, errorMessage, notP>>

SearchResponses == {<<"r">>, <<"[", "]">>}

PostSearchReturns == \E r \in SearchResponses : PostSearchResolves(r)

\* the search rejects: the catch block answers 500
PostSearchRejects ==
  /\ ppc = "searching"
  /\ ppc' = "failed"
  /\ httpStatus' = 500
  /\ errorMessage' = "search failed"
  /\ UNCHANGED <<request, messages, searchQuery, payload, calls, notP>>

\* fetchWithRetries returns a response: the stream is built and returned
\* with the default status (157-230)
PostFetchReturns ==
  /\ ppc = "fetching"
  /\ ppc' = "streaming"
  /\ httpStatus' = 200
  /\ UNCHANGED <<request, messages, searchQuery, payload, errorMessage, calls,
                 notP>>

\* fetchWithRetries throws after its last attempt: the catch block answers 500
PostFetchThrows ==
  /\ ppc = "fetching"
  /\ ppc' = "failed"
  /\ httpStatus' = 500
  /\ errorMessage' = "HTTP error"
  /\ UNCHANGED <<request, messages, searchQuery, payload, calls, notP>>

-----------------------------------------------------------------------------
(* The wire format *)

DataPrefix == <<"d", "a", "t", "a", ":", " ">>          \* 'data: '

DoneToken == <<"[", "D", "O", "N", "E", "]">>           \* '[DONE]'

\* 'data: [DONE]\n\n'
DoneEvent == DataPrefix \o DoneToken \o <<"\n", "\n">>

\* `data: ${content}\n\n`
DataEvent(content) == DataPrefix \o content \o <<"\n", "\n">>

RECURSIVE Unescape(_)
\* The characters of a JSON string body: \n, \" and \\ are escapes, a bare
\* quote or a structural brace ends the string early (a syntax error here).
Unescape(body) ==
  IF body = <<>> THEN [ok |-> TRUE, text |-> <<>>]
  ELSE IF Head(body) = "\\"
  THEN IF Len(body) >= 2 /\ body[2] \in {"n", "\"", "\\"}
       THEN LET r == Unescape(Slice(body, 2))
                c == IF body[2] = "n" THEN "\n" ELSE body[2]
            IN  [r EXCEPT !.text = <<c>> \o @]
       ELSE [ok |-> FALSE, text |-> <<>>]
  ELSE IF Head(body) \in {"\"", "{", "}"}
  THEN [ok |-> FALSE, text |-> <<>>]
  ELSE LET r == Unescape(Tail(body))
       IN  [r EXCEPT !.text = <<Head(body)>> \o @]

\* JSON.parse(jsonData) followed by data.choices?.[0]?.delta?.content || ''.
\* The model writes the delta object {"choices":[{"delta":{"content":"..."}}]}
\* as "{" ... "}": the opening brace stands for the text up to the content
\* string's opening quote, the closing brace for its closing quote onwards.
\* Anything else is not JSON.
DeltaContent(jsonData) ==
  IF Len(jsonData) >= 2 /\ Head(jsonData) = "{" /\ Last(jsonData) = "}"
  THEN Unescape(SubSeq(jsonData, 2, Len(jsonData) - 1))
  ELSE [ok |-> FALSE, text |-> <<>>]

\* the delta object carrying `content`, as the provider writes it (content
\* without characters that need escaping)
DeltaJson(content) == <<"{">> \o content \o <<"}">>

-----------------------------------------------------------------------------
(* The output stream's controller (ReadableStreamDefaultController) *)

\* controller.enqueue(chunk) throws unless the stream is readable; both call
\* sites catch the exception
Enqueue(st, q, chunk) == IF st = "readable" THEN Append(q, chunk) ELSE q

\* controller.error(e): no effect unless the stream is readable
ControllerError(st) == IF st = "readable" THEN "errored" ELSE st

\* controller.close(): throws a TypeError unless the stream is readable
ControllerCloseThrows(st) == st # "readable"

ControllerClose(st) == IF st = "readable" THEN "closed" ELSE st

-----------------------------------------------------------------------------
(* The upstream transformer, route.ts 157-222 *)

\* a loop without the [DONE] branch: the sentinel goes to JSON.parse
LineEventsNoDone(line) ==
  IF TrimIsEmpty(line) \/ ~StartsWith(line, DataPrefix) THEN <<>>
  ELSE LET data == DeltaContent(Slice(line, 6))
           content == sanitizeContent(data.text)
       IN  IF data.ok /\ content # <<>>
           THEN <<Utf8Encode(DataEvent(content))>>
           ELSE <<>>

\* a loop without the `if (content)` test: an empty delta is framed too
LineEventsAlways(line) ==
  IF TrimIsEmpty(line) THEN <<>>
  ELSE IF ~StartsWith(line, DataPrefix) THEN <<>>
  ELSE LET jsonData == Slice(line, 6)
       IN  IF jsonData = DoneToken THEN <<Utf8Encode(DoneEvent)>>
           ELSE LET data == DeltaContent(jsonData)
                    content == sanitizeContent(data.text)
                IN  IF data.ok
                    THEN <<Utf8Encode(DataEvent(content))>>
                    ELSE <<>>

\* a loop that forwards a line without the prefix instead of skipping it
LineEventsEcho(line) ==
  IF TrimIsEmpty(line) THEN <<>>
  ELSE IF ~StartsWith(line, DataPrefix) THEN <<Utf8Encode(line \o <<"\n", "\n">>)>>
  ELSE LET jsonData == Slice(line, 6)
       IN  IF jsonData = DoneToken THEN <<Utf8Encode(DoneEvent)>>
           ELSE LET data == DeltaContent(jsonData)
                    content == sanitizeContent(data.text)
                IN  IF data.ok /\ content # <<>>
                    THEN <<Utf8Encode(DataEvent(content))>>
                    ELSE <<>>

\* the chunks one complete line makes the loop enqueue (route.ts 183-212)
LineEvents(line) ==
  IF TrimIsEmpty(line) THEN <<>>
  ELSE IF ~StartsWith(line, DataPrefix) THEN <<>>
  ELSE LET jsonData == Slice(line, 6)
       IN  IF jsonData = DoneToken THEN <<Utf8Encode(DoneEvent)>>
           ELSE LET data == DeltaContent(jsonData)
                    content == sanitizeContent(data.text)
                IN  IF data.ok /\ content # <<>>
                    THEN <<Utf8Encode(DataEvent(content))>>
                    ELSE <<>>

RECURSIVE EnqueueAll(_, _, _)
EnqueueAll(st, q, chunks) ==
  IF chunks = <<>> THEN q
  ELSE EnqueueAll(st, Enqueue(st, q, Head(chunks)), Tail(chunks))

\* a loop that starts every iteration with an empty buffer
CarryNothing(chars) == <<>>

\* const lines = buffer.split('\n'); buffer = lines.pop() || ''
CarryOver(chars) == Last(SplitNL(chars))

\* a loop that forgets lines.pop() and also handles the unfinished line
AllLines(chars) == SplitNL(chars)

CompleteLines(chars) == Front(SplitNL(chars))

\* the chunks the for-loop over the complete lines enqueues
LinesEvents(lines) == Flatten([i \in 1..Len(lines) |-> LineEvents(lines[i])])

\* the catch and finally blocks of the read loop: `threw` says whether the
\* try block ended by an exception
\* a release placed at the end of the try block instead of in finally
ReleaseOnlyOnSuccess(threw) == IF threw THEN 0 ELSE 1

\* reader.releaseLock() sits in the finally block: one call on every path
ReleaseCalls(threw) == 1

\* 1 when a controller call moved the stream from state a to another state
Moved(a, b) == IF a # b THEN 1 ELSE 0

StartEnds(threw) ==
  LET st1 == IF threw THEN ControllerError(ctrl) ELSE ctrl
      st2 == ControllerClose(st1)
  IN  /\ releases' = releases + ReleaseCalls(threw)
      /\ closeThrew' = ControllerCloseThrows(st1)
      /\ ctrl' = st2
      /\ terminals' = terminals + Moved(ctrl, st1) + Moved(st1, st2)
      /\ tpc' = "done"

\* One iteration of the loop on a chunk of k bytes.  `kept` is what the
\* decoder does with its byte queue after it has thrown (the standard leaves
\* the unread bytes in it, an implementation may drop them).
TRead(k, kept) ==
  /\ tpc = "loop"
  /\ upPos + k <= Len(upstream)
  /\ LET value == SubSeq(upstream, upPos + 1, upPos + k)
         d1 == Utf8Decode(decPending \o value)
         q2 == (IF kept THEN d1.rest ELSE <<>>) \o Slice(value, 1)
         d2 == Utf8Decode(q2)
         d == IF d1.ok THEN d1 ELSE d2
         joined == buffer \o d.text
     IN  /\ upPos' = upPos + k
         /\ tlog' = [tlog EXCEPT
                       !.decodeThrows = @ + (IF d1.ok THEN 0 ELSE IF d2.ok THEN 1 ELSE 2),
                       !.threw = ~d.ok]
         /\ IF d.ok
            THEN /\ decPending' = d.pending
                 /\ buffer' = CarryOver(joined)
                 /\ out' = EnqueueAll(ctrl, out, LinesEvents(CompleteLines(joined)))
                 /\ UNCHANGED <<ctrl, releases, terminals, closeThrew, tpc>>
            ELSE /\ decPending' = IF kept THEN d2.rest ELSE <<>>
                 /\ StartEnds(TRUE)
                 /\ UNCHANGED <<buffer, out>>
  /\ UNCHANGED <<upstream, notT>>

\* reader.read() resolves with done: the loop breaks
TReadDone ==
  /\ tpc = "loop"
  /\ upPos = Len(upstream)
  /\ StartEnds(FALSE)
  /\ UNCHANGED <<upstream, upPos, buffer, decPending, out, tlog, notT>>

\* reader.read() rejects (the upstream connection fails)
TReadError ==
  /\ tpc = "loop"
  /\ tlog' = [tlog EXCEPT !.readError = TRUE, !.threw = TRUE]
  /\ StartEnds(TRUE)
  /\ UNCHANGED <<upstream, upPos, buffer, decPending, out, notT>>

\* whether decoding the next k bytes throws
DecodeThrows(k) ==
  ~Utf8Decode(decPending \o SubSeq(upstream, upPos + 1, upPos + k)).ok

\* reader.read() resolves with a chunk of any size
TReadChunk ==
  \E k \in 1..(Len(upstream) - upPos) :
    \E kept \in IF DecodeThrows(k) THEN BOOLEAN ELSE {FALSE} : TRead(k, kept)

-----------------------------------------------------------------------------
(* The stream consumer, page.tsx 11-55 *)

RECURSIVE Utf8DecodeLossy(_)
\* new TextDecoder().decode(value): not fatal and not streaming, so every
\* malformed or incomplete sequence becomes one U+FFFD
Utf8DecodeLossy(q) ==
  IF q = <<>> THEN <<>>
  ELSE IF Head(q) \in AsciiChars THEN <<Head(q)>> \o Utf8DecodeLossy(Tail(q))
  ELSE IF \E c \in NonAsciiChars : StartsWith(q, Utf8Bytes(c))
  THEN LET c == CHOOSE c \in NonAsciiChars : StartsWith(q, Utf8Bytes(c))
       IN  <<c>> \o Utf8DecodeLossy(Slice(q, Len(Utf8Bytes(c))))
  ELSE LET held == CHOOSE n \in 0..Len(q) :
                     /\ n = 0 \/ IsPartial(SubSeq(q, 1, n))
                     /\ \A m \in (n + 1)..Len(q) : ~IsPartial(SubSeq(q, 1, m))
       IN  <<"U+FFFD">> \o Utf8DecodeLossy(Slice(q, IF held = 0 THEN 1 ELSE held))

\* String(undefined), what RegExp.prototype.test makes of a missing character
Undefined == <<"u", "n", "d", "e", "f", "i", "n", "e", "d">>

\* s[i - 1] of the source (TLA+ counts from 1), as a string: a missing
\* index gives undefined
CharAt(s, i) == IF i \in 1..Len(s) THEN <<s[i]>> ELSE Undefined

\* /[a-zA-Z0-9]/.test(str)
RegexAlnumTest(str) == \E i \in 1..Len(str) : str[i] \in AlnumChars

\* page.tsx 36-41
needsSpace(txt, content) ==
  /\ Len(txt) > 0
  /\ RegexAlnumTest(CharAt(txt, Len(txt)))
  /\ RegexAlnumTest(CharAt(content, 1))

\* page.tsx 43: text += (needsSpace ? ' ' : '') + content
JoinToken(txt, content) ==
  txt \o (IF needsSpace(txt, content) THEN <<" ">> ELSE <<>>) \o content

\* whether a line of a chunk makes the loop append and publish
IsPayloadLine(line) == StartsWith(line, DataPrefix) /\ Slice(line, 6) # DoneToken

ConsumeLine(txt, line) ==
  IF IsPayloadLine(line) THEN JoinToken(txt, Slice(line, 6)) ELSE txt

RECURSIVE ConsumeLines(_, _)
ConsumeLines(txt, lines) ==
  IF lines = <<>> THEN txt
  ELSE ConsumeLines(ConsumeLine(txt, Head(lines)), Tail(lines))

\* the lines of one chunk: decoder.decode(value).split('\n')
ChunkLines(value) == SplitNL(Utf8DecodeLossy(value))

\* the loop body on one chunk: the new value of `text`
ConsumeChunk(txt, value) == ConsumeLines(txt, ChunkLines(value))

\* setStreamContent(text) runs after each append; the state after the chunk
\* is the last value set
PublishAfter(shown, txt, value) ==
  IF \E i \in 1..Len(ChunkLines(value)) : IsPayloadLine(ChunkLines(value)[i])
  THEN ConsumeChunk(txt, value)
  ELSE shown

\* the bytes of the response body sent so far
Body == Flatten(out)

\* onResponse on the streamed response (status 200): page.tsx 12-22
COnResponse ==
  /\ cpc = "idle"
  /\ cpc' = "loop"
  /\ streamContent' = <<>>
  /\ text' = <<>>
  /\ UNCHANGED <<cPos, notC>>

\* one iteration of readStream on a chunk of k bytes
CRead(k) ==
  /\ cpc = "loop"
  /\ cPos + k <= Len(Body)
  /\ LET value == SubSeq(Body, cPos + 1, cPos + k)
     IN  /\ text' = ConsumeChunk(text, value)
         /\ streamContent' = PublishAfter(streamContent, text, value)
  /\ cPos' = cPos + k
  /\ UNCHANGED <<cpc, notC>>

CReadChunk == \E k \in 1..(Len(Body) - cPos) : CRead(k)

\* reader.read() resolves with done: the body is closed and read to its end
CReadDone ==
  /\ cpc = "loop"
  /\ ctrl = "closed"
  /\ cPos = Len(Body)
  /\ cpc' = "done"
  /\ UNCHANGED <<cPos, text, streamContent, notC>>

\* reader.read() rejects because the body ended abnormally; the catch block
\* logs and the loop is left
CReadError ==
  /\ cpc = "loop"
  /\ ctrl = "errored"
  /\ cpc' = "done"
  /\ UNCHANGED <<cPos, text, streamContent, notC>>

-----------------------------------------------------------------------------
(* The page: submit controls, hook callbacks and read loops, page.tsx 9-59
   and 137-162.  The hook useChat is a library: what the model takes from
   it is that handleSubmit sends a request unless the input is empty and
   sets isLoading, that onResponse is called with the response, and that
   onFinish is called once for a response it has finished with. *)

\* the body of a streamed response: one data event
ResponseBody == Utf8Encode(DataEvent(<<"H">>))

NewRequest ==
  [phase |-> "sent", finished |-> FALSE, pos |-> 0, text |-> <<>>]

MaxRequests == 2

\* useChat's handleSubmit: nothing for an empty input, otherwise the
\* request is sent, the input cleared and isLoading set
handleSubmit ==
  /\ input # <<>>
  /\ Len(reqs) < MaxRequests
  /\ reqs' = Append(reqs, NewRequest)
  /\ input' = <<>>
  /\ isLoading' = TRUE
  /\ UNCHANGED <<streamContent, notU>>

\* onChange={handleInputChange}
InputValues == {<<>>, <<" ">>, <<"h", "i">>}

handleInputChange ==
  \E v \in InputValues :
    /\ v # input
    /\ input' = v
    /\ UNCHANGED <<isLoading, reqs, streamContent, notU>>

\* disabled={isLoading || !input.trim()}
ButtonDisabled == isLoading \/ Trim(input) = <<>>

\* a click on the Send button: the form's onSubmit={handleSubmit}
ClickSend ==
  /\ ~ButtonDisabled
  /\ handleSubmit

\* onKeyDown with Enter and no shift key (146-153)
PressEnter ==
  /\ Trim(input) # <<>>
  /\ handleSubmit

\* onResponse for request i (11-55): a response that is not ok is logged;
\* otherwise the shown text is reset and readStream is started, not awaited
OnResponse(i, ok) ==
  /\ reqs[i].phase = "sent"
  /\ IF ok
     THEN /\ streamContent' = <<>>
          /\ reqs' = [reqs EXCEPT ![i].phase = "reading", ![i].text = <<>>]
          /\ UNCHANGED isLoading
     ELSE /\ reqs' = [reqs EXCEPT ![i].phase = "rejected"]
          /\ isLoading' = FALSE
          /\ UNCHANGED streamContent
  /\ UNCHANGED <<input, notU>>

ResponseArrives == \E i \in 1..Len(reqs), ok \in BOOLEAN : OnResponse(i, ok)

\* one iteration of request i's readStream on a chunk of k bytes (26-47)
LoopRead(i, k) ==
  /\ reqs[i].phase = "reading"
  /\ reqs[i].pos + k <= Len(ResponseBody)
  /\ LET value == SubSeq(ResponseBody, reqs[i].pos + 1, reqs[i].pos + k)
     IN  /\ reqs' = [reqs EXCEPT ![i].pos = @ + k,
                                 ![i].text = ConsumeChunk(@, value)]
         /\ streamContent' = PublishAfter(streamContent, reqs[i].text, value)
  /\ UNCHANGED <<isLoading, input, notU>>

LoopReadChunk ==
  \E i \in 1..Len(reqs) :
    \E k \in 1..(Len(ResponseBody) - reqs[i].pos) : LoopRead(i, k)

\* request i's reader reports done, or rejects and the catch block logs
\* (27, 49-51): the loop is left, nothing is cleared
LoopEnds ==
  \E i \in 1..Len(reqs), failed \in BOOLEAN :
    /\ reqs[i].phase = "reading"
    /\ failed \/ reqs[i].pos = Len(ResponseBody)
    /\ reqs' = [reqs EXCEPT ![i].phase = "read"]
    /\ UNCHANGED <<isLoading, input, streamContent, notU>>

\* onFinish for request i (56-58); the hook then drops isLoading
OnFinish ==
  \E i \in 1..Len(reqs) :
    /\ reqs[i].phase \in {"reading", "read"}
    /\ ~reqs[i].finished
    /\ reqs' = [reqs EXCEPT ![i].finished = TRUE]
    /\ streamContent' = <<>>
    /\ isLoading' = FALSE
    /\ UNCHANGED <<input, notU>>

-----------------------------------------------------------------------------
(* The token join on its own *)

\* the join as the loop applies it to a payload that is not [DONE]
JoinApply ==
  /\ jpc = "in"
  /\ jResult' = JoinToken(jText, jContent)
  /\ jpc' = "joined"
  /\ UNCHANGED <<jText, jContent, notJ>>

-----------------------------------------------------------------------------
(* sanitizeContent on its own *)

\* sanitizeContent(x)
SanitizeOnce ==
  /\ spc = "in"
  /\ sOnce' = sanitizeContent(sInput)
  /\ spc' = "once"
  /\ UNCHANGED <<sInput, sTwice, notS>>

\* sanitizeContent(sanitizeContent(x))
SanitizeAgain ==
  /\ spc = "once"
  /\ sTwice' = sanitizeContent(sOnce)
  /\ spc' = "twice"
  /\ UNCHANGED <<sInput, sOnce, notS>>

-----------------------------------------------------------------------------
(* One delta through the wire format: framed by the transformer (route.ts
   200-208), extracted by the consumer (page.tsx 29-35) *)

\* the characters of `content` as JSON.stringify writes them in a string
JsonEscape(content) ==
  Flatten([i \in 1..Len(content) |->
             IF content[i] = "\n" THEN <<"\\", "n">>
             ELSE IF content[i] \in {"\"", "\\"} THEN <<"\\", content[i]>>
             ELSE <<content[i]>>])

\* the upstream line that carries the delta `content`, without its line break
DeltaLineOf(content) == DataPrefix \o <<"{">> \o JsonEscape(content) \o <<"}">>

\* the payloads the consumer's for-loop appends for the lines of one chunk:
\* line.slice(6) of every line that starts with 'data: ' and is not the
\* [DONE] line
PayloadsOf(lines) ==
  LET kept == SelectSeq(lines, IsPayloadLine)
  IN  [i \in 1..Len(kept) |-> Slice(kept[i], 6)]

\* the transformer handles the line of the delta
WSend ==
  /\ wpc = "in"
  /\ wEvents' = LineEvents(DeltaLineOf(wDelta))
  /\ wpc' = "sent"
  /\ UNCHANGED <<wDelta, wPayloads, notW>>

\* the consumer reads everything that was sent as one chunk
WRead ==
  /\ wpc = "sent"
  /\ wPayloads' = PayloadsOf(ChunkLines(Flatten(wEvents)))
  /\ wpc' = "read"
  /\ UNCHANGED <<wDelta, wEvents, notW>>

-----------------------------------------------------------------------------
(* Upstream bodies the transformer is run on *)

\* a line with the delta `content`
DeltaLine(content) == DataPrefix \o DeltaJson(content) \o <<"\n">>

LnDone == DataPrefix \o DoneToken \o <<"\n">>

\* a delta whose content is empty
EvEmpty == DataPrefix \o DeltaJson(<<>>) \o <<"\n">>

\* a delta whose content sanitizes to nothing (Greek Omega)
EvOmega == DataPrefix \o <<"{", "xCE", "xA9", "}", "\n">>

\* a delta with an e-acute, which sanitizes to "e"
EvEacute == DataPrefix \o <<"{", "xC3", "xA9", "}", "\n">>

\* a delta whose content holds a line break (\n in JSON)
EvBreak == DataPrefix \o <<"{", "a", "\\", "n", "b", "}", "\n">>

\* an SSE comment line, a data line that is no JSON, a blank line
LnComment == <<":", "k", "\n">>

LnNotJson == DataPrefix \o <<"x", "\n">>

LnBlank == <<"\n">>

\* a [DONE] line whose line break never arrives
DoneUnterminated == DataPrefix \o DoneToken

\* a byte no UTF-8 sequence contains, and a lead byte without continuation
BadByte == <<"xFF">>

LoneLead == <<"xC3">>

UpstreamItems ==
  {DeltaLine(<<"l", "o">>), LnDone, DoneUnterminated, EvEacute, LnNotJson,
   LnBlank, BadByte, LoneLead}

MaxItems == 2

RECURSIVE UpstreamsOf(_, _)
\* the bodies made of at most n of the items
UpstreamsOf(items, n) ==
  IF n = 0 THEN {<<>>}
  ELSE LET shorter == UpstreamsOf(items, n - 1)
       IN  shorter \cup {b \o i : b \in shorter, i \in items}

-----------------------------------------------------------------------------
(* Initial values of each component *)

\* the transformer before its first read
TStart ==
  /\ upPos = 0
  /\ tpc = "loop"
  /\ buffer = <<>>
  /\ decPending = <<>>
  /\ ctrl = "readable"
  /\ out = <<>>
  /\ releases = 0
  /\ terminals = 0
  /\ closeThrew = FALSE
  /\ tlog = [decodeThrows |-> 0, readError |-> FALSE, threw |-> FALSE]

\* the page before any response
CStart ==
  /\ cpc = "idle"
  /\ cPos = 0
  /\ text = <<>>
  /\ streamContent = <<>>

\* no call of fetchWithRetries yet
NoError == [kind |-> "none", status |-> 0, attempt |-> 0]

FStart ==
  /\ fpc = "idle"
  /\ maxRetries = 0
  /\ initialDelay = 0
  /\ retries = 0
  /\ delay = 0
  /\ attempts = 0
  /\ waits = <<>>
  /\ errors = <<>>
  /\ fresult = NoError

\* no request yet
NoRequest ==
  [apiKey |-> TRUE, tavilyKey |-> TRUE,
   body |-> [isJson |-> TRUE, isObject |-> TRUE, messagesIsArray |-> TRUE,
             messages |-> <<>>]]

PStart ==
  /\ ppc = "idle"
  /\ request = NoRequest
  /\ messages = <<>>
  /\ searchQuery = <<>>
  /\ payload = <<>>
  /\ httpStatus = 0
  /\ errorMessage = "none"
  /\ calls = <<>>

\* the sanitizer not applied, no delta framed
SStart ==
  /\ spc = "idle"
  /\ sInput = <<>>
  /\ sOnce = <<>>
  /\ sTwice = <<>>

WStart ==
  /\ wpc = "idle"
  /\ wDelta = <<>>
  /\ wEvents = <<>>
  /\ wPayloads = <<>>

JStart ==
  /\ jpc = "idle"
  /\ jText = <<>>
  /\ jContent = <<>>
  /\ jResult = <<>>

\* the page as first rendered
UStart ==
  /\ isLoading = FALSE
  /\ input = <<>>
  /\ reqs = <<>>

-----------------------------------------------------------------------------
(* The transformer alone *)

TInit ==
  /\ upstream \in UpstreamsOf(UpstreamItems, MaxItems)
  /\ TStart /\ CStart /\ FStart /\ PStart /\ JStart /\ UStart /\ SStart /\ WStart

TNext == TReadChunk \/ TReadDone \/ TReadError

SpecT == TInit /\ [][TNext]_vars

-----------------------------------------------------------------------------
(* The transformer alone, on well-encoded bodies of good and bad lines *)

LineItems ==
  {DeltaLine(<<"l", "o">>), LnDone, EvEmpty, EvOmega, LnComment, LnNotJson,
   LnBlank}

MaxLineItems == 2

LInit ==
  /\ upstream \in UpstreamsOf(LineItems, MaxLineItems)
  /\ TStart /\ CStart /\ FStart /\ PStart /\ JStart /\ UStart /\ SStart /\ WStart

SpecLines == LInit /\ [][TNext]_vars

-----------------------------------------------------------------------------
(* The pipeline: transformer output read by the consumer *)

EvHel == DataPrefix \o DeltaJson(<<"H", "e", "l">>) \o <<"\n", "\n">>

EvLo == DataPrefix \o DeltaJson(<<"l", "o">>) \o <<"\n", "\n">>

\* the events Hel, lo, [DONE] in this order, each present or left out
PipelineUpstreams ==
  {(IF hel THEN EvHel ELSE <<>>) \o (IF lo THEN EvLo ELSE <<>>)
     \o (IF done THEN Utf8Encode(DoneEvent) ELSE <<>>) :
     hel \in BOOLEAN, lo \in BOOLEAN, done \in BOOLEAN}

PInit ==
  /\ upstream \in PipelineUpstreams
  /\ TStart /\ CStart /\ FStart /\ PStart /\ JStart /\ UStart /\ SStart /\ WStart

PNext ==
  \/ TReadChunk
  \/ TReadDone
  \/ TReadError
  \/ COnResponse
  \/ CReadChunk
  \/ CReadDone
  \/ CReadError

SpecPipeline == PInit /\ [][PNext]_vars

-----------------------------------------------------------------------------
(* fetchWithRetries alone, called with any retries and delay *)

MaxRetriesArg == 4

MaxDelayArg == 2

FInit ==
  /\ maxRetries \in 0..MaxRetriesArg
  /\ initialDelay \in {DefaultDelay} \cup 1..MaxDelayArg
  /\ retries = maxRetries
  /\ delay = initialDelay
  /\ fpc = "fetch"
  /\ attempts = 0
  /\ waits = <<>>
  /\ errors = <<>>
  /\ fresult = NoError
  /\ upstream = <<>>
  /\ TStart
  /\ CStart
  /\ PStart
  /\ JStart
  /\ UStart /\ SStart /\ WStart

FNext == FFetchSettles \/ FTimer

SpecFetch == FInit /\ [][FNext]_vars

-----------------------------------------------------------------------------
(* POST alone, on any request *)

MessageRoles == {"user", "assistant", "system", "bot"}

MessageContents == {<<"q">>, <<" ">>, <<"U+03A9">>, <<" ", "h", "i", " ">>}

\* elements of body.messages: well-typed ones with any role and content, an
\* empty role, an empty content, and one specimen of each type error
RawMessages ==
  {[isObject |-> TRUE, roleIsString |-> TRUE, role |-> r,
    contentIsString |-> TRUE, content |-> c] :
     r \in MessageRoles, c \in MessageContents}
  \cup
  {[isObject |-> TRUE, roleIsString |-> TRUE, role |-> "",
    contentIsString |-> TRUE, content |-> <<"q">>],
   [isObject |-> TRUE, roleIsString |-> TRUE, role |-> "user",
    contentIsString |-> TRUE, content |-> <<>>],
   [isObject |-> FALSE, roleIsString |-> FALSE, role |-> "",
    contentIsString |-> FALSE, content |-> <<>>],
   [isObject |-> TRUE, roleIsString |-> FALSE, role |-> "",
    contentIsString |-> TRUE, content |-> <<"q">>],
   [isObject |-> TRUE, roleIsString |-> TRUE, role |-> "user",
    contentIsString |-> FALSE, content |-> <<>>]}

MaxMessages == 2

RECURSIVE MessageLists(_)
MessageLists(n) ==
  IF n = 0 THEN {<<>>}
  ELSE LET shorter == MessageLists(n - 1)
       IN  shorter \cup {Append(l, m) : l \in shorter, m \in RawMessages}

\* bodies: not JSON, JSON but no object, an object without a messages array,
\* an object with a messages array
RequestBodies ==
  {[isJson |-> FALSE, isObject |-> FALSE, messagesIsArray |-> FALSE, messages |-> <<>>],
   [isJson |-> TRUE, isObject |-> FALSE, messagesIsArray |-> FALSE, messages |-> <<>>],
   [isJson |-> TRUE, isObject |-> TRUE, messagesIsArray |-> FALSE, messages |-> <<>>]}
  \cup
  {[isJson |-> TRUE, isObject |-> TRUE, messagesIsArray |-> TRUE, messages |-> l] :
     l \in MessageLists(MaxMessages)}

PostInit ==
  /\ request \in [apiKey : BOOLEAN, tavilyKey : BOOLEAN, body : RequestBodies]
  /\ ppc = "start"
  /\ messages = <<>>
  /\ searchQuery = <<>>
  /\ payload = <<>>
  /\ httpStatus = 0
  /\ errorMessage = "none"
  /\ calls = <<>>
  /\ upstream = <<>>
  /\ TStart
  /\ CStart
  /\ FStart
  /\ JStart
  /\ UStart /\ SStart /\ WStart

PostNext ==
  \/ PostReceive
  \/ PostSearchReturns
  \/ PostSearchRejects
  \/ PostFetchReturns
  \/ PostFetchThrows

SpecPost == PostInit /\ [][PostNext]_vars

-----------------------------------------------------------------------------
(* The token join on any buffer and payload *)

JoinAlphabet == {"a", "Z", "7", "!", ".", " "}

MaxJoinLen == 2

RECURSIVE StringsOver(_, _)
StringsOver(alphabet, n) ==
  IF n = 0 THEN {<<>>}
  ELSE LET shorter == StringsOver(alphabet, n - 1)
       IN  shorter \cup {Append(w, c) : w \in shorter, c \in alphabet}

JoinStrings ==
  StringsOver(JoinAlphabet, MaxJoinLen)
  \cup {<<"a", "b", "c">>, <<"d", "e", "f">>, <<"e", "n", "d", ".">>,
        <<"N", "e", "x", "t">>, DoneToken}

JInit ==
  /\ jText \in JoinStrings
  /\ jContent \in JoinStrings
  /\ jpc = "in"
  /\ jResult = <<>>
  /\ upstream = <<>>
  /\ TStart /\ CStart /\ FStart /\ PStart /\ UStart /\ SStart /\ WStart

JNext == JoinApply

SpecJoin == JInit /\ [][JNext]_vars

-----------------------------------------------------------------------------
(* The page alone *)

UInit ==
  /\ upstream = <<>>
  /\ TStart /\ CStart /\ FStart /\ PStart /\ JStart /\ UStart /\ SStart /\ WStart

UNext ==
  \/ handleInputChange
  \/ ClickSend
  \/ PressEnter
  \/ ResponseArrives
  \/ LoopReadChunk
  \/ LoopEnds
  \/ OnFinish

SpecPage == UInit /\ [][UNext]_vars

-----------------------------------------------------------------------------
(* sanitizeContent alone, on any text *)

SanitizeAlphabet ==
  {"a", " ", "\"", ".", "-", "U+201C", "U+2019", "U+2014", "U+2013", "U+2026",
   "U+00E9", "U+03A9"}

MaxSanitizeLen == 2

SanitizeInputs == StringsOver(SanitizeAlphabet, MaxSanitizeLen)

SInit ==
  /\ spc = "in"
  /\ sInput \in SanitizeInputs
  /\ sOnce = <<>>
  /\ sTwice = <<>>
  /\ upstream = <<>>
  /\ TStart /\ CStart /\ FStart /\ PStart /\ JStart /\ UStart /\ WStart

SNext == SanitizeOnce \/ SanitizeAgain

SpecSanitize == SInit /\ [][SNext]_vars

-----------------------------------------------------------------------------
(* The wire format alone, on any delta *)

DeltaAlphabet == {"a", " ", "\n", "\"", "U+00E9"}

MaxDeltaLen == 3

Deltas == StringsOver(DeltaAlphabet, MaxDeltaLen)

WInit ==
  /\ wpc = "in"
  /\ wDelta \in Deltas
  /\ wEvents = <<>>
  /\ wPayloads = <<>>
  /\ upstream = <<>>
  /\ TStart /\ CStart /\ FStart /\ PStart /\ JStart /\ UStart /\ SStart

WNext == WSend \/ WRead

SpecWire == WInit /\ [][WNext]_vars

-----------------------------------------------------------------------------
(* Properties of the transformer *)

DoneChunk == Utf8Encode(DoneEvent)

DoneLine == DataPrefix \o DoneToken

\* how many elements of the sequence q equal x
Count(q, x) == Cardinality({i \in 1..Len(q) : q[i] = x})

\* the upstream body holds no malformed byte sequence
UpstreamValid == Utf8Decode(upstream).ok

\* the newline-terminated lines of the upstream text delivered so far, and
\* of the whole upstream text
LinesRead == CompleteLines(Utf8Decode(SubSeq(upstream, 1, upPos)).text)

UpstreamLines == CompleteLines(Utf8Decode(upstream).text)

\* a line `data: [DONE]` occurs in the upstream text, terminated or not
SentDone ==
  \E i \in 1..Len(SplitNL(Utf8Decode(upstream).text)) :
    SplitNL(Utf8Decode(upstream).text)[i] = DoneLine

\* the loop ended because upstream ended
EndedByEof == tpc = "done" /\ ~tlog.threw

C3_ReleaseOnce ==
  /\ tpc = "loop" => (releases = 0 /\ terminals = 0 /\ ctrl = "readable")
  /\ tpc = "done" =>
       /\ releases = 1
       /\ terminals = 1
       /\ ctrl = IF tlog.threw THEN "errored" ELSE "closed"

\* the loop was left by an exception after a [DONE] event had been emitted
C3_Witness ==
  /\ tpc = "done"
  /\ tlog.threw
  /\ Count(out, DoneChunk) >= 1
  /\ releases = 1
  /\ ctrl = "errored"

\* the last line of the upstream text that is neither blank nor unfinished
NonBlankLines == SelectSeq(UpstreamLines, LAMBDA l : ~TrimIsEmpty(l))

EndsWithDoneLine == NonBlankLines # <<>> /\ Last(NonBlankLines) = DoneLine

\* the last such line carries the delta "lo"
EndsWithLoLine ==
  NonBlankLines # <<>> /\ Last(NonBlankLines) = DataPrefix \o DeltaJson(<<"l", "o">>)

ClosedNormally == tpc = "done" /\ ctrl = "closed"

-----------------------------------------------------------------------------
(* Properties of fetchWithRetries *)

RECURSIVE Pow2(_)
Pow2(n) == IF n = 0 THEN 1 ELSE 2 * Pow2(n - 1)

\* C5: fetch is called at most maxRetries + 1 times; the call throws only
\* after every one of maxRetries + 1 attempts has failed (4 attempts with the
\* default maxRetries = 3), and what it throws is the error caught after the
\* last attempt; what it returns is a response with a success status.
C5_AttemptBound ==
  /\ attempts <= maxRetries + 1
  /\ fpc = "thrown" =>
       /\ attempts = maxRetries + 1
       /\ Len(errors) = attempts
       /\ fresult = Last(errors)
       /\ fresult.attempt = attempts
       /\ maxRetries = 3 => attempts = 4
  /\ fpc = "returned" =>
       /\ fresult.kind = "Response"
       /\ fresult.status \in 200..299
       /\ fresult.attempt = attempts

\* a call with the default retries has thrown after its fourth failed attempt
C5_Witness ==
  /\ fpc = "thrown"
  /\ maxRetries = 3
  /\ attempts = 4
  /\ \E i \in 1..4 : errors[i].kind = "HttpError"
  /\ \E i \in 1..4 : errors[i].kind = "TypeError"

\* C6: the k-th wait lasts initialDelay * 2^(k-1) (1000, 2000, 4000 ms with
\* the default delay); one wait precedes every retry and none follows the
\* last attempt, failed or successful; a call that fails twice and then
\* succeeds returns that response after waits of 1000 and 2000 ms and three
\* attempts.
C6_Backoff ==
  /\ \A k \in 1..Len(waits) : waits[k] = initialDelay * Pow2(k - 1)
  /\ initialDelay = 1000 =>
       \A k \in 1..Len(waits) : k <= 3 => waits[k] = <<1000, 2000, 4000>>[k]
  /\ Len(waits) = IF fpc \in {"returned", "thrown"} THEN attempts - 1 ELSE attempts
  /\ (fpc = "returned" /\ Len(errors) = 2 /\ initialDelay = 1000) =>
       /\ waits = <<1000, 2000>>
       /\ attempts = 3
       /\ fresult.kind = "Response"
       /\ fresult.attempt = 3

\* a default call has returned the response of its third attempt
C6_Witness ==
  /\ fpc = "returned"
  /\ maxRetries = 3
  /\ initialDelay = 1000
  /\ Len(errors) = 2
  /\ waits = <<1000, 2000>>

-----------------------------------------------------------------------------
(* Properties of POST *)

SystemIndexes(msgs) == {i \in 1..Len(msgs) : msgs[i].role = "system"}

\* the validated input list, as line 103 leaves it
ValidatedInput ==
  [i \in 1..Len(request.body.messages) |-> Validated(request.body.messages[i])]

NonSystem(msgs) == SelectSeq(msgs, LAMBDA m : m.role # "system")

\* C4: the list forwarded to the completion provider holds at most one
\* system message, at index 0 (the first element), and the injection leaves
\* every message of the input that is no system message in place.
C4_OneSystemFirst ==
  ppc = "fetching" =>
     /\ Cardinality(SystemIndexes(payload)) <= 1
     /\ SystemIndexes(payload) \subseteq {1}
     /\ NonSystem(messages) = NonSystem(ValidatedInput)

-----------------------------------------------------------------------------
(* Properties of the consumer and the page *)

HelloUpstream == EvHel \o EvLo \o Utf8Encode(DoneEvent)

\* C2: for the upstream Hel, lo, [DONE] the transformer emits `data: Hel`,
\* `data: lo`, `data: [DONE]` in this order, and the consumer that has read
\* them to the end holds "Hello", without an inserted space.
C2_EndToEnd ==
  (upstream = HelloUpstream /\ EndedByEof /\ cpc = "done") =>
     /\ out = <<Utf8Encode(DataEvent(<<"H", "e", "l">>)),
                Utf8Encode(DataEvent(<<"l", "o">>)), DoneChunk>>
     /\ text = <<"H", "e", "l", "l", "o">>

\* C7: for a payload other than [DONE], the new buffer is buffer + " " +
\* payload exactly when the buffer is non-empty, its last character is
\* alphanumeric and the payload has a first character that is alphanumeric;
\* otherwise it is buffer + payload.
C7_JoinRule ==
  (jpc = "joined" /\ jContent # DoneToken) =>
     jResult =
       IF /\ jText # <<>>
          /\ Last(jText) \in AlnumChars
          /\ jContent # <<>>
          /\ Head(jContent) \in AlnumChars
       THEN jText \o <<" ">> \o jContent
       ELSE jText \o jContent

\* a response is between its onResponse and its onFinish
InProgress(i) == reqs[i].phase \in {"reading", "read"} /\ ~reqs[i].finished

\* C9: once the completion callback has run the shown buffer is empty, and
\* it stays empty until the next response starts, whatever the read loop
\* does meanwhile.
C9_BufferLifecycle ==
  (\A i \in 1..Len(reqs) : ~InProgress(i)) => streamContent = <<>>

ReadLoops == {i \in 1..Len(reqs) : reqs[i].phase = "reading"}

\* C10: while isLoading is true no step submits a chat request, and at no
\* time do two read loops run.
C10_OneInFlight ==
  /\ [][isLoading => Len(reqs') = Len(reqs)]_vars
  /\ [](Cardinality(ReadLoops) <= 1)

-----------------------------------------------------------------------------
(* POST: errors before the stream, content and query of what is sent *)

\* the requests the claim lists: a key missing, a body that is no JSON
\* object, messages no array or empty, an element with a role outside the
\* three roles or with an empty or non-string content
FatalRequest(req) ==
  \/ ~req.apiKey \/ ~req.tavilyKey
  \/ ~req.body.isJson \/ ~req.body.isObject
  \/ ~req.body.messagesIsArray
  \/ Len(req.body.messages) = 0
  \/ \E i \in 1..Len(req.body.messages) :
       LET msg == req.body.messages[i]
       IN  \/ ~msg.roleIsString
           \/ msg.role \notin {"user", "assistant", "system"}
           \/ ~msg.contentIsString
           \/ msg.content = <<>>

\* C11: once POST has looked at a request with a missing key, a body that is
\* no JSON object, a messages field that is no array or is empty, or an
\* element with a bad role or an empty or non-string content, the response
\* is the 500 error envelope, no stream is started and no provider was
\* called; a missing key is reported whatever the body is.
C11_PreStreamFatal ==
  /\ (ppc # "start" /\ FatalRequest(request)) =>
        /\ ppc = "failed"
        /\ httpStatus = 500
        /\ errorMessage # "none"
        /\ calls = <<>>
        /\ tpc = "loop" /\ out = <<>> /\ ctrl = "readable"
  /\ (ppc # "start" /\ ~request.apiKey) =>
        errorMessage = "TOGETHER_API_KEY is not configured"
  /\ (ppc # "start" /\ request.apiKey /\ ~request.tavilyKey) =>
        errorMessage = "TAVILY_API_KEY is not configured"

\* a request with both keys whose second message has the role "bot" was
\* answered 500 without any provider call
C11_Witness ==
  /\ ppc = "failed"
  /\ request.apiKey /\ request.tavilyKey
  /\ Len(request.body.messages) = 2
  /\ MessageValid(request.body.messages[1])
  /\ request.body.messages[2].role = "bot"
  /\ request.body.messages[2].content = <<"q">>
  /\ httpStatus = 500
  /\ calls = <<>>

\* C13: every message sent to the completion provider has non-empty
\* content.
C13_NonEmptyForwarded ==
  ppc \in {"fetching", "streaming"} =>
    \A i \in 1..Len(payload) : payload[i].content # <<>>

UserIndexes(msgs) == {i \in 1..Len(msgs) : msgs[i].role = "user"}

LatestUser(msgs) ==
  msgs[CHOOSE i \in UserIndexes(msgs) : \A j \in UserIndexes(msgs) : j <= i]

\* C14: the query given to the search provider is the content of the latest
\* message with role user in the validated list.
C14_QueryIsLatestUser ==
  (ppc = "searching" /\ UserIndexes(messages) # {}) =>
    searchQuery = LatestUser(messages).content

-----------------------------------------------------------------------------
(* The sanitizer and the wire format *)

\* C15: sanitizing a sanitized text changes nothing, and a sanitized text
\* holds only characters up to 0x7F.
C15_Idempotent ==
  /\ spc \in {"once", "twice"} => \A i \in 1..Len(sOnce) : sOnce[i] \in AsciiChars
  /\ spc = "twice" => sTwice = sOnce

\* a left double quote followed by an ellipsis was sanitized twice
C15_Witness ==
  /\ spc = "twice"
  /\ sInput = <<"U+201C", "U+2026">>
  /\ sOnce = <<"\"", ".", ".", ".">>
  /\ sTwice = sOnce

\* C18: every chunk the transformer enqueues for a delta is 'data: ', the
\* payload and a blank-line terminator, and the payload the consumer
\* extracts from it is the sanitized delta in full.
C18_RoundTrip ==
  /\ \A i \in 1..Len(wEvents) :
        /\ StartsWith(wEvents[i], DataPrefix)
        /\ SubSeq(wEvents[i], Len(wEvents[i]) - 1, Len(wEvents[i])) = <<"\n", "\n">>
  /\ (wpc = "read" /\ wEvents # <<>>) => wPayloads = <<sanitizeContent(wDelta)>>

-----------------------------------------------------------------------------
(* The transformer: empty deltas, decode failures, bad lines, chunking *)

\* the line carries a parsable delta whose sanitized content is not empty
HasText(line) ==
  /\ StartsWith(line, DataPrefix)
  /\ Slice(line, 6) # DoneToken
  /\ DeltaContent(Slice(line, 6)).ok
  /\ sanitizeContent(DeltaContent(Slice(line, 6)).text) # <<>>

\* the line carries a parsable delta whose sanitized content is empty
HasEmptyDelta(line) ==
  /\ StartsWith(line, DataPrefix)
  /\ Slice(line, 6) # DoneToken
  /\ DeltaContent(Slice(line, 6)).ok
  /\ sanitizeContent(DeltaContent(Slice(line, 6)).text) = <<>>

\* C12: every chunk on the output stream is the [DONE] event or a data
\* event with a non-empty payload, and the lines read so far whose delta is
\* absent, empty or sanitizes to nothing have added no chunk: there are as
\* many chunks as [DONE] lines and lines with a non-empty sanitized delta.
C12_NoEmptyEvent ==
  /\ \A i \in 1..Len(out) :
        \/ out[i] = DoneChunk
        \/ /\ StartsWith(out[i], DataPrefix)
           /\ Len(out[i]) > Len(DataPrefix) + 2
           /\ out[i] # Utf8Encode(DataEvent(<<>>))
  /\ Len(out) = Cardinality({i \in 1..Len(LinesRead) :
                               LinesRead[i] = DoneLine \/ HasText(LinesRead[i])})

\* an empty delta and a delta that sanitizes to nothing were read to the
\* end: nothing was enqueued
C12_Witness ==
  /\ EndedByEof
  /\ Len(UpstreamLines) = 2
  /\ HasEmptyDelta(UpstreamLines[1])
  /\ HasEmptyDelta(UpstreamLines[2])
  /\ UpstreamLines[1] # UpstreamLines[2]
  /\ out = <<>>
  /\ ctrl = "closed"

\* C16: a decode failure is never what puts the output stream into the
\* error state or stops the loop: the stream is errored only after a failed
\* read, and a loop that met no failed read ends only at upstream EOF.
C16_DecodeNonFatal ==
  (tlog.decodeThrows > 0 /\ ~tlog.readError) =>
     /\ ctrl # "errored"
     /\ tpc = "done" => upPos = Len(upstream)

\* a line the claim calls malformed: blank, without the prefix, or a data
\* line whose payload is neither [DONE] nor parsable JSON
Malformed(line) ==
  \/ TrimIsEmpty(line)
  \/ ~StartsWith(line, DataPrefix)
  \/ Slice(line, 6) # DoneToken /\ ~DeltaContent(Slice(line, 6)).ok

WellFormed(lines) == SelectSeq(lines, LAMBDA l : ~Malformed(l))

\* C17: the chunks enqueued are those of the lines read so far with the
\* malformed lines removed, in the same order; such lines never error or
\* close the stream: it is readable while the loop runs and closed when the
\* loop ends at EOF.
C17_SkipMalformed ==
  /\ out = LinesEvents(WellFormed(LinesRead))
  /\ tpc = "loop" => ctrl = "readable"
  /\ EndedByEof => ctrl = "closed"

\* a data line that is no JSON, then the delta "lo": one event, normal close
C17_Witness ==
  /\ EndedByEof
  /\ Len(UpstreamLines) = 2
  /\ Malformed(UpstreamLines[1])
  /\ StartsWith(UpstreamLines[1], DataPrefix)
  /\ out = <<Utf8Encode(DataEvent(<<"l", "o">>))>>
  /\ ctrl = "closed"

\* C19: for a validly encoded upstream, however it is split into chunks,
\* the chunks enqueued are those of the newline-terminated lines of the text
\* delivered so far, each handled once and in order; at upstream EOF they
\* are those of the newline-terminated lines of the whole text, so a last
\* line without line break gives no event.
C19_ChunkIndependent ==
  UpstreamValid =>
     /\ out = LinesEvents(LinesRead)
     /\ EndedByEof => out = LinesEvents(UpstreamLines)

\* the first line was handled and the chunk ended inside the prefix of the
\* second line
C19_Witness ==
  /\ UpstreamValid
  /\ tpc = "loop"
  /\ buffer = <<"d", "a", "t">>
  /\ Len(out) = 1
  /\ upPos < Len(upstream)

-----------------------------------------------------------------------------
(* The consumer and the chunks of the response *)

\* C20: when the consumer has read a normally closed response to its end,
\* its buffer is the one it builds when the whole response arrives as a
\* single chunk, however the bytes were split into chunks.
C20_ConsumerChunkIndependent ==
  (cpc = "done" /\ ctrl = "closed" /\ cPos = Len(Body)) =>
     text = ConsumeChunk(<<>>, Body)

====
